---- MODULE Spec2Model ----
(***************************************************************************)
(* Model of the session core of the Surveillance Station client:          *)
(*   src/surveillance/api/client.py  (SurveillanceAPI)                    *)
(*   src/surveillance/api/auth.py    (login, logout)                      *)
(*   src/surveillance/services/ws_bridge.py  (WebSocketBridge)            *)
(* Every coroutine is cut at its await points: the code between two       *)
(* awaits runs atomically on the asyncio loop, so one action is "handle   *)
(* the response of the pending GET and run up to the next GET".           *)
(***************************************************************************)
EXTENDS Integers, Sequences, FiniteSets, TLC

(* ------------------------------------------------------------------ *)
(* Bounds of the model                                                 *)
(* ------------------------------------------------------------------ *)
MaxVersion == 2

\* how far the length field of a generated frame may point past its end
MaxOverrun == 1

\* start() calls made on one bridge, messages its sockets deliver, and
\* payloads the FIFO holds before a write blocks
MaxStarts == 2

MaxRecv == 2

PipeCap == 1

(* ------------------------------------------------------------------ *)
(* Input domains                                                       *)
(* ------------------------------------------------------------------ *)
Tasks == {"t1", "t2"}
MainTasks == {"t1"}

Sids == {"S1", "S2"}
Usernames == {"", "admin"}
Passwords == {"", "pw"}
CallerApis == {"SYNO.SurveillanceStation.Camera"}
ApiNames == {"SYNO.API.Auth", "SYNO.SurveillanceStation.Camera"}
Versions == 0..MaxVersion
VendorCodes == {102, 105, 106, 107, 119, 403}
OtpRequiredCodes == {403}

(* ------------------------------------------------------------------ *)
(* Python dicts as functions                                           *)
(* ------------------------------------------------------------------ *)
EmptyDict == <<>>

DictGet(d, k, default) == IF k \in DOMAIN d THEN d[k] ELSE default

DictUpdate(d, e) ==
    [k \in (DOMAIN d) \cup (DOMAIN e) |-> IF k \in DOMAIN e THEN e[k] ELSE d[k]]

ExtraParams == {EmptyDict, "cameraId" :> "1"}

(* ------------------------------------------------------------------ *)
(* Error codes and exception classes                                   *)
(* ------------------------------------------------------------------ *)
ERRORS ==
    (100 :> "Unknown error") @@
    (101 :> "Invalid parameters") @@
    (102 :> "API does not exist") @@
    (103 :> "Method does not exist") @@
    (104 :> "This API version is not supported") @@
    (105 :> "Insufficient user privilege") @@
    (106 :> "Connection time out") @@
    (107 :> "Multiple login detected") @@
    (119 :> "SID not found") @@
    (400 :> "Execution failed") @@
    (401 :> "Parameter invalid") @@
    (402 :> "Camera disabled") @@
    (407 :> "CMS closed") @@
    (412 :> "Need to run as admin") @@
    (413 :> "Need to enable home mode first")

SESSION_ERRORS_no119 == {105, 106, 107}

SESSION_ERRORS == {105, 106, 107, 119}

NoCause == [kind |-> "none", code |-> 0]

\* an outcome of a coroutine: kind "ok" is a normal return, every other kind
\* is the class of the exception that leaves it
Outcome(kind, code, message, cause, data) ==
    [kind |-> kind, code |-> code, message |-> message, cause |-> cause, data |-> data]

NoResult == Outcome("pending", 0, "", NoCause, EmptyDict)

Return(data) == Outcome("ok", 0, "", NoCause, data)

ApiErrorNoTable(code) ==
    Outcome("ApiError", code, "Unknown error (" \o ToString(code) \o ")",
            NoCause, EmptyDict)

ApiError(code) ==
    Outcome("ApiError", code,
            IF code \in DOMAIN ERRORS THEN ERRORS[code]
            ELSE "Unknown error (" \o ToString(code) \o ")",
            NoCause, EmptyDict)

AuthError(message) == Outcome("AuthError", 0, message, NoCause, EmptyDict)

SessionExpiredError(message, e) ==
    Outcome("SessionExpiredError", 0, message, [kind |-> e.kind, code |-> e.code], EmptyDict)

\* exceptions raised by httpx / json, none of them an ApiError
HttpxError(kind) == Outcome(kind, 0, "", NoCause, EmptyDict)

\* isinstance(exc, cls) for the classes of auth.py and client.py
IsInstance(kind, cls) ==
    \/ kind = cls
    \/ kind = "SessionExpiredError" /\ cls = "AuthError"

(* ------------------------------------------------------------------ *)
(* What the NAS (or the network) can answer to one GET                 *)
(* ------------------------------------------------------------------ *)
DataSet == {EmptyDict} \cup {"sid" :> s : s \in Sids \cup {""}}

Envelopes ==
    {("success" :> TRUE) @@ ("data" :> d) : d \in DataSet}
    \cup {"success" :> TRUE}
    \cup {("success" :> FALSE) @@ ("error" :> ("code" :> c)) : c \in VendorCodes}
    \cup {"success" :> FALSE}

\* net: "ok" a response arrived with a 2xx/3xx status, "status" a 4xx/5xx
\* status (raise_for_status), "transport" no response at all
\* .content stands for the raw body bytes
Response(net, ctype, parses, json) ==
    [net |-> net, ctype |-> ctype, parses |-> parses, json |-> json,
     content |-> IF net # "ok" THEN "" ELSE IF parses THEN "json-bytes" ELSE "video-bytes"]

Responses ==
    {Response("transport", "", FALSE, EmptyDict), Response("status", "", FALSE, EmptyDict)}
    \cup {Response("ok", "application/json", TRUE, e) : e \in Envelopes}
    \cup {Response("ok", "video/mp4", FALSE, EmptyDict)}
    \cup {Response("ok", "application/json", FALSE, EmptyDict)}

IsJsonContentType(ctype) == ctype = "application/json"

(* ------------------------------------------------------------------ *)
(* State                                                               *)
(* ------------------------------------------------------------------ *)
VARIABLES
    sid,        \* SurveillanceAPI.sid
    username,   \* SurveillanceAPI.username
    password,   \* SurveillanceAPI.password
    api_info,   \* SurveillanceAPI._api_info: dict name -> ApiInfo
    pc,         \* per task: the await the coroutine is suspended at
    call,       \* per task: the arguments of the running (or last) operation
    trace,      \* per task: events (GETs sent, login() entered/left) of the
                \* running (or last) operation, in order
    result,     \* per task: outcome of the last finished operation
    prev,       \* per task: whether the operation before the running (or last)
                \* one was a logout, and the GETs that logout sent
    message,    \* the WebSocket message handed to _extract_payload
    payload,    \* what _extract_payload returned for it
    tmp_dir,    \* WebSocketBridge._tmp_dir   (0 is the empty string)
    fifo_path,  \* WebSocketBridge._fifo_path (d is <d>/stream.ts, 0 is "")
    pump_task,  \* WebSocketBridge._pump_task (0 is None)
    starts,     \* start() calls made so far
    dirs,       \* temporary directories that exist
    fifos,      \* FIFO files that exist
    task,       \* the pump tasks created: position, pending cancel, fd, socket
    thread,     \* the worker-thread operation each pump task dispatched
    wfds,       \* write descriptors open in the process, named by opener
    pipe,       \* per FIFO: the player's read end, buffered payloads, bytes written
    owner,      \* the caller of start()/stop(): position and last call
    live,       \* a call of get_live_view_path: its arguments, the data the
                \* request answers with, and the outcome
    config      \* the AppConfig: default_profile and profiles (in dict order)

apiVars == <<sid, username, password, api_info, pc, call, trace, result, prev>>

framerVars == <<message, payload>>

bridgeVars == <<tmp_dir, fifo_path, pump_task, starts, dirs, fifos, task,
                thread, wfds, pipe, owner>>

serviceVars == <<live, config>>

vars == <<sid, username, password, api_info, pc, call, trace, result, prev,
          message, payload,
          tmp_dir, fifo_path, pump_task, starts, dirs, fifos, task,
          thread, wfds, pipe, owner, live, config>>

sessionVars == <<sid, username, password>>

taskVars == <<pc, call, trace, result, prev>>

(* ------------------------------------------------------------------ *)
(* Endpoint info (client.py 105-141, models.py 253-266)                *)
(* ------------------------------------------------------------------ *)
ApiInfo_from_api(data) ==
    [path |-> DictGet(data, "path", ""),
     min_version |-> DictGet(data, "minVersion", 1),
     max_version |-> DictGet(data, "maxVersion", 1)]

\* what the NAS reports for each API it knows
NasInfo ==
    ("SYNO.API.Auth" :> (("path" :> "auth.cgi") @@ ("minVersion" :> 1) @@ ("maxVersion" :> 7)))
    @@ ("SYNO.SurveillanceStation.Camera" :> (("path" :> "entry.cgi") @@ ("maxVersion" :> 1)))

\* the data of a discovery answer: the APIs installed at that moment
DiscoveryData ==
    {[n \in names |-> NasInfo[n]] : names \in SUBSET ApiNames}

DiscoveryResponses ==
    {Response("transport", "", FALSE, EmptyDict), Response("status", "", FALSE, EmptyDict)}
    \cup {Response("ok", "application/json", TRUE, ("success" :> TRUE) @@ ("data" :> d)) :
            d \in DiscoveryData}
    \cup {Response("ok", "application/json", TRUE,
                   ("success" :> FALSE) @@ ("error" :> ("code" :> c))) : c \in VendorCodes}

Min(a, b) == IF a <= b THEN a ELSE b

get_api_path(api_name) ==
    IF api_name \in DOMAIN api_info
    THEN "/webapi/" \o api_info[api_name].path
    ELSE "/webapi/entry.cgi"

get_api_version_noclamp(api_name, requested) ==
    IF api_name \in DOMAIN api_info /\ requested # 0
    THEN requested
    ELSE IF api_name \in DOMAIN api_info
         THEN api_info[api_name].max_version
         ELSE IF requested # 0 THEN requested ELSE 1

get_api_version(api_name, requested) ==
    IF api_name \in DOMAIN api_info /\ requested # 0
    THEN Min(requested, api_info[api_name].max_version)
    ELSE IF api_name \in DOMAIN api_info
         THEN api_info[api_name].max_version
         ELSE IF requested # 0 THEN requested ELSE 1

(* ------------------------------------------------------------------ *)
(* Building a request (the code before the await of client.get)        *)
(* ------------------------------------------------------------------ *)
NoReq == [path |-> "", params |-> EmptyDict]

BuildRequestAlwaysSid(s, api, method, version, extra_params) ==
    LET params == ("api" :> api) @@ ("version" :> get_api_version(api, version))
                  @@ ("method" :> method) @@ ("_sid" :> s)
    IN  [path |-> get_api_path(api), params |-> DictUpdate(params, extra_params)]

\* raw_request, lines 154-165; s is self.sid when the lines run
BuildRequest(s, api, method, version, extra_params) ==
    LET params == ("api" :> api) @@ ("version" :> get_api_version(api, version))
                  @@ ("method" :> method)
        withSid == IF s # "" THEN DictUpdate(params, "_sid" :> s) ELSE params
    IN  [path |-> get_api_path(api), params |-> DictUpdate(withSid, extra_params)]

\* download, lines 209-220
DownloadRequest(s, api, method, version, extra_params) ==
    LET params == ("api" :> api) @@ ("version" :> get_api_version(api, version))
                  @@ ("method" :> method)
        withSid == IF s # "" THEN DictUpdate(params, "_sid" :> s) ELSE params
    IN  [path |-> get_api_path(api), params |-> DictUpdate(withSid, extra_params)]

\* discover_apis, lines 107-115: no _sid is attached
DiscoverRequest ==
    [path |-> "/webapi/query.cgi",
     params |-> ("api" :> "SYNO.API.Info") @@ ("version" :> 1)
                @@ ("method" :> "Query") @@ ("query" :> "all")]

\* login, lines 49-59
LoginRequest(s, user, pw) ==
    BuildRequest(s, "SYNO.API.Auth", "Login", 6,
                 ("account" :> user) @@ ("passwd" :> pw)
                 @@ ("session" :> "SurveillanceStation") @@ ("format" :> "sid"))

\* logout, lines 77-82
LogoutRequest(s) ==
    BuildRequest(s, "SYNO.API.Auth", "Logout", 6, "session" :> "SurveillanceStation")

base_url == "https://nas:5001"

RECURSIVE Join(_, _)
Join(sep, strs) ==
    IF strs = <<>> THEN ""
    ELSE IF Len(strs) = 1 THEN strs[1]
    ELSE strs[1] \o sep \o Join(sep, Tail(strs))

\* extra_params of get_stream_url as the list of its items, in dict order
StreamExtras == {<<>>, << <<"api", "SYNO.Test">> >>}

\* get_stream_url, lines 235-246; the returned string is .text, .params is
\* the list it was joined from
get_stream_url(s, path, extra_items) ==
    LET url == base_url \o "/webapi/" \o path
        params == (IF s # "" THEN <<"_sid=" \o s>> ELSE <<>>)
                  \o [i \in 1..Len(extra_items) |-> extra_items[i][1] \o "=" \o extra_items[i][2]]
    IN  [params |-> params,
         text |-> IF params # <<>> THEN url \o "?" \o Join("&", params) ELSE url]

(* ------------------------------------------------------------------ *)
(* Handling a response (the code after the await of client.get)        *)
(* ------------------------------------------------------------------ *)
RawOutcomeTransportAsApiError(resp) ==
    IF resp.net = "transport" THEN ApiError(106)
    ELSE IF resp.net = "status" THEN ApiError(100)
    ELSE IF ~resp.parses THEN HttpxError("JSONDecodeError")
    ELSE IF ~DictGet(resp.json, "success", FALSE)
         THEN ApiError(DictGet(DictGet(resp.json, "error", EmptyDict), "code", 100))
         ELSE Return(DictGet(resp.json, "data", EmptyDict))

\* raw_request, lines 167-176
RawOutcome(resp) ==
    IF resp.net = "transport" THEN HttpxError("TransportError")
    ELSE IF resp.net = "status" THEN HttpxError("HTTPStatusError")
    ELSE IF ~resp.parses THEN HttpxError("JSONDecodeError")
    ELSE IF ~DictGet(resp.json, "success", FALSE)
         THEN ApiError(DictGet(DictGet(resp.json, "error", EmptyDict), "code", 100))
         ELSE Return(DictGet(resp.json, "data", EmptyDict))

LoginOutcomeNoSidCheck(resp) ==
    LET out == RawOutcome(resp)
    IN  IF out.kind # "ok" THEN out ELSE Return(DictGet(out.data, "sid", ""))

\* login, lines 49-68: the outcome of login() given the response to its GET;
\* on "ok" the data is the sid that is stored and returned
LoginOutcome(resp) ==
    LET out == RawOutcome(resp)
        s == DictGet(out.data, "sid", "")
    IN  IF out.kind # "ok" THEN out
        ELSE IF s = "" THEN AuthError("Login succeeded but no SID returned")
        ELSE Return(s)

\* a download may be answered by a JSON body that is not announced as JSON
DownloadResponses ==
    Responses
    \cup {Response("ok", "text/html", TRUE,
                    ("success" :> FALSE) @@ ("error" :> ("code" :> 102)))}

DownloadOutcomeAnyContentType(resp) ==
    IF resp.net = "transport" THEN HttpxError("TransportError")
    ELSE IF resp.net = "status" THEN HttpxError("HTTPStatusError")
    ELSE IF resp.parses /\ ~DictGet(resp.json, "success", FALSE)
         THEN ApiError(DictGet(DictGet(resp.json, "error", EmptyDict), "code", 100))
         ELSE Return(resp.content)

\* download, lines 222-233
DownloadOutcome(resp) ==
    IF resp.net = "transport" THEN HttpxError("TransportError")
    ELSE IF resp.net = "status" THEN HttpxError("HTTPStatusError")
    ELSE IF IsJsonContentType(resp.ctype) /\ ~resp.parses THEN HttpxError("JSONDecodeError")
    ELSE IF IsJsonContentType(resp.ctype) /\ ~DictGet(resp.json, "success", FALSE)
         THEN ApiError(DictGet(DictGet(resp.json, "error", EmptyDict), "code", 100))
         ELSE Return(resp.content)

ShouldReloginUserOnly(e, user, pw) ==
    e.code \in SESSION_ERRORS /\ user # ""

\* request, line 192
ShouldRelogin(e, user, pw) ==
    e.code \in SESSION_ERRORS /\ user # "" /\ pw # ""

(* ------------------------------------------------------------------ *)
(* Bookkeeping shared by the actions                                   *)
(* ------------------------------------------------------------------ *)
NoResp == Response("none", "", FALSE, EmptyDict)

\* one entry of a task's trace; sid, user, pw are the session fields as they
\* are when the event happens (for "login": the user and pw passed in)
Event(ev, req, resp, s, user, pw) ==
    [ev |-> ev, req |-> req, resp |-> resp, sid |-> s, user |-> user, pw |-> pw]

\* the operation is entered
Entered == Event("call", NoReq, NoResp, sid, username, password)

\* client.get is awaited with a request built while self.sid was s
Get(req, s) == Event("GET", req, NoResp, s, "", "")

\* the awaited client.get ends with resp
Resp(resp) == Event("RESP", NoReq, resp, sid, username, password)

LoginCall(user, pw) == Event("login", NoReq, NoResp, sid, user, pw)

LoginReturn == Event("login_return", NoReq, NoResp, "", "", "")

LoginRaise == Event("login_raise", NoReq, NoResp, "", "", "")

Gets(tr) == SelectSeq(tr, LAMBDA e : e.ev = "GET")

LoginCalls(tr) == SelectSeq(tr, LAMBDA e : e.ev = "login")

Call(op, api, method, version, extra, user, pw) ==
    [op |-> op, api |-> api, method |-> method, version |-> version,
     extra |-> extra, user |-> user, pw |-> pw, err |-> NoResult]

NoCall == Call("none", "", "", 0, EmptyDict, "", "")

\* a caller on task t enters an operation: its events so far are evs and it
\* is suspended at the await named next
Begin(t, c, evs, next) ==
    /\ pc[t] = "idle"
    /\ pc' = [pc EXCEPT ![t] = next]
    /\ call' = [call EXCEPT ![t] = c]
    /\ trace' = [trace EXCEPT ![t] = <<Entered>> \o evs]
    /\ result' = [result EXCEPT ![t] = NoResult]
    /\ prev' = [prev EXCEPT ![t] = IF call[t].op = "logout"
                                   THEN [op |-> "logout", gets |-> Len(Gets(trace[t]))]
                                   ELSE [op |-> "other", gets |-> 0]]

\* a caller on task t runs an operation that returns without awaiting
Run(t, c, out) ==
    /\ pc[t] = "idle"
    /\ UNCHANGED pc
    /\ call' = [call EXCEPT ![t] = c]
    /\ trace' = [trace EXCEPT ![t] = <<Entered>>]
    /\ result' = [result EXCEPT ![t] = out]
    /\ prev' = [prev EXCEPT ![t] = IF call[t].op = "logout"
                                   THEN [op |-> "logout", gets |-> Len(Gets(trace[t]))]
                                   ELSE [op |-> "other", gets |-> 0]]

\* the coroutine of task t goes on to its next await after the events evs
Continue(t, evs, next) ==
    /\ pc' = [pc EXCEPT ![t] = next]
    /\ trace' = [trace EXCEPT ![t] = trace[t] \o evs]
    /\ UNCHANGED <<result, prev>>

\* the operation of task t returns or raises out after the events evs
Finish(t, evs, out) ==
    /\ pc' = [pc EXCEPT ![t] = "idle"]
    /\ trace' = [trace EXCEPT ![t] = trace[t] \o evs]
    /\ result' = [result EXCEPT ![t] = out]
    /\ UNCHANGED <<call, prev>>

InitApi ==
    /\ sid = ""
    /\ username = ""
    /\ password = ""
    /\ api_info = EmptyDict
    /\ pc = [t \in Tasks |-> "idle"]
    /\ call = [t \in Tasks |-> NoCall]
    /\ trace = [t \in Tasks |-> <<>>]
    /\ result = [t \in Tasks |-> NoResult]
    /\ prev = [t \in Tasks |-> [op |-> "other", gets |-> 0]]

(* ------------------------------------------------------------------ *)
(* SurveillanceAPI.request (client.py 178-199)                         *)
(* ------------------------------------------------------------------ *)
\* lines 189-190 and raw_request up to line 167
RequestStart(t, api, method, version, extra) ==
    /\ Begin(t, Call("request", api, method, version, extra, "", ""),
             <<Get(BuildRequest(sid, api, method, version, extra), sid)>>, "request_first")
    /\ UNCHANGED <<sid, username, password, api_info>>

RequestFirstResponseForgetsSid(t, resp) ==
    /\ pc[t] = "request_first"
    /\ LET e == RawOutcome(resp) IN
        IF IsInstance(e.kind, "ApiError") /\ ShouldRelogin(e, username, password)
        THEN /\ sid' = ""
             /\ Continue(t, <<Resp(resp), LoginCall(username, password),
                              Get(LoginRequest(sid', username, password), sid')>>,
                         "request_relogin")
             /\ call' = [call EXCEPT ![t].err = e, ![t].user = username, ![t].pw = password]
        ELSE /\ Finish(t, <<Resp(resp)>>, e)
             /\ UNCHANGED sid
    /\ UNCHANGED <<username, password, api_info>>

\* the first raw_request ends: lines 190-199, and on a session error
\* login() is entered and runs up to the await of its own GET
RequestFirstResponse(t, resp) ==
    /\ pc[t] = "request_first"
    /\ LET e == RawOutcome(resp) IN
        IF IsInstance(e.kind, "ApiError") /\ ShouldRelogin(e, username, password)
        THEN /\ Continue(t, <<Resp(resp), LoginCall(username, password),
                              Get(LoginRequest(sid, username, password), sid)>>,
                         "request_relogin")
             /\ call' = [call EXCEPT ![t].err = e, ![t].user = username, ![t].pw = password]
        ELSE Finish(t, <<Resp(resp)>>, e)
    /\ UNCHANGED <<sid, username, password, api_info>>

\* the GET of the re-login ends: auth.py 61-68, then client.py 196-198
RequestReloginResponse(t, resp) ==
    /\ pc[t] = "request_relogin"
    /\ LET l == LoginOutcome(resp) IN
        IF l.kind = "ok"
        THEN /\ sid' = l.data
             /\ username' = call[t].user
             /\ password' = call[t].pw
             /\ Continue(t, <<Resp(resp), LoginReturn,
                              Get(BuildRequest(sid', call[t].api, call[t].method,
                                               call[t].version, call[t].extra), sid')>>,
                         "request_retry")
             /\ UNCHANGED call
        ELSE /\ IF IsInstance(l.kind, "AuthError")
                THEN Finish(t, <<Resp(resp), LoginRaise>>,
                            SessionExpiredError("Re-login failed", call[t].err))
                ELSE Finish(t, <<Resp(resp), LoginRaise>>, l)
             /\ UNCHANGED <<sid, username, password>>
    /\ UNCHANGED api_info

RequestRetryResponseLoop(t, resp) ==
    /\ pc[t] = "request_retry"
    /\ LET e == RawOutcome(resp) IN
        IF IsInstance(e.kind, "ApiError") /\ ShouldRelogin(e, username, password)
           /\ Len(trace[t]) < 12
        THEN /\ Continue(t, <<Resp(resp), LoginCall(username, password),
                              Get(LoginRequest(sid, username, password), sid)>>,
                         "request_relogin")
             /\ UNCHANGED call
        ELSE Finish(t, <<Resp(resp)>>, e)
    /\ UNCHANGED <<sid, username, password, api_info>>

\* the retried raw_request ends: line 198
RequestRetryResponse(t, resp) ==
    /\ pc[t] = "request_retry"
    /\ Finish(t, <<Resp(resp)>>, RawOutcome(resp))
    /\ UNCHANGED <<sid, username, password, api_info>>

(* ------------------------------------------------------------------ *)
(* login and logout (auth.py)                                          *)
(* ------------------------------------------------------------------ *)
\* login up to the await of its GET, lines 49-59
LoginStart(t, user, pw) ==
    /\ Begin(t, Call("login", "", "", 0, EmptyDict, user, pw),
             <<LoginCall(user, pw), Get(LoginRequest(sid, user, pw), sid)>>, "login_wait")
    /\ UNCHANGED <<sid, username, password, api_info>>

LoginResponseClearsOnFailure(t, resp) ==
    /\ pc[t] = "login_wait"
    /\ LET l == LoginOutcome(resp) IN
        IF l.kind = "ok"
        THEN /\ sid' = l.data
             /\ username' = call[t].user
             /\ password' = call[t].pw
             /\ Finish(t, <<Resp(resp), LoginReturn>>, l)
        ELSE /\ Finish(t, <<Resp(resp), LoginRaise>>, l)
             /\ sid' = ""
             /\ UNCHANGED <<username, password>>
    /\ UNCHANGED api_info

\* lines 61-68
LoginResponse(t, resp) ==
    /\ pc[t] = "login_wait"
    /\ LET l == LoginOutcome(resp) IN
        IF l.kind = "ok"
        THEN /\ sid' = l.data
             /\ username' = call[t].user
             /\ password' = call[t].pw
             /\ Finish(t, <<Resp(resp), LoginReturn>>, l)
        ELSE /\ Finish(t, <<Resp(resp), LoginRaise>>, l)
             /\ UNCHANGED <<sid, username, password>>
    /\ UNCHANGED api_info

\* logout, lines 73-82: returns at once without a session
LogoutStart(t) ==
    /\ IF sid = ""
       THEN Run(t, Call("logout", "", "", 0, EmptyDict, "", ""), Return(EmptyDict))
       ELSE Begin(t, Call("logout", "", "", 0, EmptyDict, "", ""),
                  <<Get(LogoutRequest(sid), sid)>>, "logout_wait")
    /\ UNCHANGED <<sid, username, password, api_info>>

LogoutResponseNoFinally(t, resp) ==
    /\ pc[t] = "logout_wait"
    /\ sid' = IF RawOutcome(resp).kind = "ok" THEN "" ELSE sid
    /\ Finish(t, <<Resp(resp)>>, Return(EmptyDict))
    /\ UNCHANGED <<username, password, api_info>>

\* lines 83-86: whatever raw_request did, the sid is cleared
LogoutResponse(t, resp) ==
    /\ pc[t] = "logout_wait"
    /\ sid' = ""
    /\ Finish(t, <<Resp(resp)>>, Return(EmptyDict))
    /\ UNCHANGED <<username, password, api_info>>

(* ------------------------------------------------------------------ *)
(* download, get_stream_url, discover_apis (client.py)                 *)
(* ------------------------------------------------------------------ *)
DownloadStart(t, api, method, version, extra) ==
    /\ Begin(t, Call("download", api, method, version, extra, "", ""),
             <<Get(DownloadRequest(sid, api, method, version, extra), sid)>>, "download_wait")
    /\ UNCHANGED <<sid, username, password, api_info>>

DownloadResponseClearsSid(t, resp) ==
    /\ pc[t] = "download_wait"
    /\ Finish(t, <<Resp(resp)>>, DownloadOutcome(resp))
    /\ sid' = IF DownloadOutcome(resp).kind = "ApiError"
                  /\ DownloadOutcome(resp).code \in SESSION_ERRORS
               THEN "" ELSE sid
    /\ UNCHANGED <<username, password, api_info>>

DownloadResponse(t, resp) ==
    /\ pc[t] = "download_wait"
    /\ Finish(t, <<Resp(resp)>>, DownloadOutcome(resp))
    /\ UNCHANGED <<sid, username, password, api_info>>

\* synchronous: runs from call to return in one step
GetStreamUrl(t, path, extra_items) ==
    /\ Run(t, Call("get_stream_url", "", path, 0, EmptyDict, "", ""),
           Return(get_stream_url(sid, path, extra_items)))
    /\ UNCHANGED <<sid, username, password, api_info>>

\* lines 107-120
DiscoverOutcome(resp) ==
    IF resp.net = "transport" THEN HttpxError("TransportError")
    ELSE IF resp.net = "status" THEN HttpxError("HTTPStatusError")
    ELSE IF ~resp.parses THEN HttpxError("JSONDecodeError")
    ELSE IF ~DictGet(resp.json, "success", FALSE)
         THEN ApiError(DictGet(DictGet(resp.json, "error", EmptyDict), "code", 100))
         ELSE Return(DictGet(resp.json, "data", EmptyDict))

DiscoverStart(t) ==
    /\ Begin(t, Call("discover_apis", "", "", 0, EmptyDict, "", ""),
             <<Get(DiscoverRequest, sid)>>, "discover_wait")
    /\ UNCHANGED <<sid, username, password, api_info>>

\* lines 116-125: every entry of the answer is stored under its name
DiscoverResponse(t, resp) ==
    /\ pc[t] = "discover_wait"
    /\ LET out == DiscoverOutcome(resp) IN
        IF out.kind = "ok"
        THEN /\ api_info' = DictUpdate(api_info,
                                [n \in DOMAIN out.data |-> ApiInfo_from_api(out.data[n])])
             /\ Finish(t, <<Resp(resp)>>, Return(EmptyDict))
        ELSE /\ Finish(t, <<Resp(resp)>>, out)
             /\ UNCHANGED api_info
    /\ UNCHANGED <<sid, username, password>>


(* ------------------------------------------------------------------ *)
(* Live view path (services/live.py 88-142)                            *)
(* ------------------------------------------------------------------ *)
\* _PROTO_FIELD, lines 51-56
PROTO_FIELD ==
    "rtsp" :> "rtspPath" @@ "rtsp_over_http" :> "rtspOverHttpPath"
    @@ "mjpeg" :> "mjpegHttpPath" @@ "multicast" :> "multicstPath"

Protocols ==
    {"auto", "rtsp", "rtsp_over_http", "mjpeg", "multicast", "webapi",
     "websocket", "direct", "hls"}

OverrideUrls == {"", "rtsp://cam.local/stream"}

\* entries of the answer of GetLiveViewPath
PathInfos ==
    {EmptyDict,
     "rtspPath" :> "rtsp://192.168.1.50:554/live" @@ "mjpegHttpPath" :> "/mjpeg/1",
     "rtspPath" :> "" @@ "mjpegHttpPath" :> "/mjpeg/1",
     "rtspPath" :> "rtsp://192.168.1.50:554/live" @@ "mjpegHttpPath" :> "",
     "rtspPath" :> "" @@ "mjpegHttpPath" :> ""}

\* the data of the answer: a list, a dict (with the keys it has), or null
LiveData ==
    {[type |-> "list", items |-> <<>>, dict |-> EmptyDict],
     [type |-> "dict", items |-> <<>>, dict |-> EmptyDict],
     [type |-> "null", items |-> <<>>, dict |-> EmptyDict]}
    \cup {[type |-> "list", items |-> <<e>>, dict |-> EmptyDict] : e \in PathInfos}
    \cup {[type |-> "dict", items |-> <<>>, dict |-> "pathInfos" :> <<e>>]
            : e \in PathInfos}
    \cup {[type |-> "dict", items |-> <<>>,
           dict |-> "cameras" :> << "rtspPath" :> "rtsp://192.168.1.50:554/live" >>]}

CameraId == "1"

\* base_url.split("://", 1)[1] of line 79, for the base_url of the session
host_port == "nas:5001"

\* _build_ws_live_url, lines 74-85
build_ws_live_url(camera_id) ==
    "wss://" \o host_port \o "/ss_webstream_task/"
    \o "?method=MixStream&stmSrc=0&blAudio=true"
    \o "&dsId=0&id=" \o camera_id \o "&devType=1&profile=0"

\* _build_webapi_url, lines 59-71
build_webapi_url(s, camera_id) ==
    get_stream_url(s, "entry.cgi",
        << <<"api", "SYNO.SurveillanceStation.Player.LiveviewSrc">>,
           <<"method", "Play">>, <<"version", "1">>, <<"camera", camera_id>>,
           <<"archId", "0">>, <<"profileType", "0">>,
           <<"itemType", "camera">> >>).text

LiveReturn(requested, url) == [kind |-> "return", requested |-> requested, url |-> url]

LiveValueError(requested) == [kind |-> "ValueError", requested |-> requested, url |-> ""]

NoLiveResult == [kind |-> "none", requested |-> FALSE, url |-> ""]

\* get_live_view_path, lines 88-142, given the data its request answers with
get_live_view_path(s, camera_id, protocol, override_url, data) ==
    IF protocol = "direct" /\ override_url # "" THEN LiveReturn(FALSE, override_url)
    ELSE IF protocol = "webapi" THEN LiveReturn(FALSE, build_webapi_url(s, camera_id))
    ELSE IF protocol = "websocket" THEN LiveReturn(FALSE, build_ws_live_url(camera_id))
    ELSE IF protocol = "auto" THEN LiveReturn(FALSE, build_ws_live_url(camera_id))
    ELSE LET paths == IF data.type = "list" THEN data.items
                      ELSE IF data.type = "dict"
                      THEN DictGet(data.dict, "pathInfos",
                                   DictGet(data.dict, "cameras", <<>>))
                      ELSE <<>>
         IN  IF paths = <<>> THEN LiveValueError(TRUE)
             ELSE LET info == paths[1] IN
                  IF protocol \in DOMAIN PROTO_FIELD
                  THEN LET value == DictGet(info, PROTO_FIELD[protocol], "") IN
                       IF value = "" THEN LiveValueError(TRUE)
                       ELSE IF PROTO_FIELD[protocol] = "mjpegHttpPath"
                       THEN LiveReturn(TRUE, base_url \o value)
                       ELSE LiveReturn(TRUE, value)
                  ELSE LiveValueError(TRUE)

InitLive ==
    /\ live \in [protocol : Protocols, override_url : OverrideUrls,
                 data : LiveData, out : {NoLiveResult}]

GetLiveViewPath ==
    /\ live.out = NoLiveResult
    /\ live' = [live EXCEPT !.out = get_live_view_path(sid, CameraId, live.protocol,
                                                       live.override_url, live.data)]
    /\ UNCHANGED config

(* ------------------------------------------------------------------ *)
(* Connection profiles (config.py 241-254)                             *)
(* ------------------------------------------------------------------ *)
\* names as login.py 182-186 passes them: never empty
ProfileNames == {"nas1", "nas2", "nas3"}

ProfileHosts == {"10.0.0.1", "10.0.0.2", "10.0.0.3"}

\* AppConfig(), lines 94-99; profiles is the dict as the list of its values
\* in insertion order
AppConfig == [default_profile |-> "", profiles |-> <<>>]

HasProfile(c, name) == \E i \in 1..Len(c.profiles) : c.profiles[i].name = name

\* add_profile, lines 241-246
add_profile(c, profile) ==
    LET profiles1 ==
            IF HasProfile(c, profile.name)
            THEN [i \in 1..Len(c.profiles) |->
                    IF c.profiles[i].name = profile.name THEN profile
                    ELSE c.profiles[i]]
            ELSE Append(c.profiles, profile)
    IN  [default_profile |-> IF c.default_profile = "" THEN profile.name
                             ELSE c.default_profile,
         profiles |-> profiles1]

remove_profile_keep_default(c, name) ==
    [default_profile |-> c.default_profile,
     profiles |-> SelectSeq(c.profiles, LAMBDA q : q.name # name)]

\* remove_profile, lines 249-254
remove_profile(c, name) ==
    LET profiles1 == SelectSeq(c.profiles, LAMBDA q : q.name # name) IN
    [default_profile |->
        IF c.default_profile = name
        THEN (IF profiles1 = <<>> THEN "" ELSE profiles1[1].name)
        ELSE c.default_profile,
     profiles |-> profiles1]

InitServicesIdle ==
    /\ live = [protocol |-> "auto", override_url |-> "",
               data |-> [type |-> "null", items |-> <<>>, dict |-> EmptyDict],
               out |-> NoLiveResult]
    /\ config = AppConfig

AddProfile ==
    /\ \E n \in ProfileNames, h \in ProfileHosts :
        config' = add_profile(config, [name |-> n, host |-> h])
    /\ UNCHANGED live

RemoveProfile ==
    /\ \E n \in ProfileNames : config' = remove_profile(config, n)
    /\ UNCHANGED live

(* ------------------------------------------------------------------ *)
(* Frame de-framer (ws_bridge.py 72-99); bytes are sequences of 0..255 *)
(* ------------------------------------------------------------------ *)
MEDIA_TYPE_2 == <<109, 101, 100, 105, 97, 84, 121, 112, 101, 61, 50>>  \* b"mediaType=2"

CLOSE_EQ == <<99, 108, 111, 115, 101, 61>>                             \* b"close="

START_CODE == <<0, 0, 0, 1>>                                           \* b"\x00\x00\x00\x01"

\* the value a Python function returns: None or a bytes object
NoneValue == [kind |-> "None", bytes |-> <<>>]

Bytes(b) == [kind |-> "bytes", bytes |-> b]

NotYet == [kind |-> "pending", bytes |-> <<>>]

\* bool(value) of None or bytes
Truthy(v) == v.kind = "bytes" /\ v.bytes # <<>>

\* message[a:b] of Python, 0-based, end exclusive, clamped to the object
Slice(b, from, to) ==
    LET lo == IF from > Len(b) THEN Len(b) ELSE from
        hi == IF to > Len(b) THEN Len(b) ELSE to
    IN  IF hi <= lo THEN <<>> ELSE SubSeq(b, lo + 1, hi)

\* sub in b, for bytes
BytesIn(sub, b) ==
    \E i \in 0..(Len(b) - Len(sub)) : SubSeq(b, i + 1, i + Len(sub)) = sub

\* struct.unpack(">I", b)
unpack_I_be(b) == 16777216 * b[1] + 65536 * b[2] + 256 * b[3] + b[4]

extract_payload_no_close(msg) ==
    IF Len(msg) < 4 THEN NoneValue
    ELSE LET hdr_len == unpack_I_be(Slice(msg, 0, 4)) IN
         IF 4 + hdr_len > Len(msg) THEN NoneValue
         ELSE LET header == Slice(msg, 4, 4 + hdr_len)
                  body == Slice(msg, 4 + hdr_len, Len(msg))
              IN  IF BytesIn(MEDIA_TYPE_2, header) THEN NoneValue
                  ELSE IF body = <<>> THEN NoneValue
                  ELSE Bytes(START_CODE \o body)

\* _extract_payload, lines 82-99
extract_payload(msg) ==
    IF Len(msg) < 4 THEN NoneValue
    ELSE LET hdr_len == unpack_I_be(Slice(msg, 0, 4)) IN
         IF 4 + hdr_len > Len(msg) THEN NoneValue
         ELSE LET header == Slice(msg, 4, 4 + hdr_len)
                  body == Slice(msg, 4 + hdr_len, Len(msg))
              IN  IF BytesIn(MEDIA_TYPE_2, header) \/ BytesIn(CLOSE_EQ, header)
                  THEN NoneValue
                  ELSE IF body = <<>> THEN NoneValue
                  ELSE Bytes(START_CODE \o body)

\* frames to decode: headers and payloads of the protocol, framed with a
\* length field that is right, too short, too long, or in the wrong byte order
FrameHeaders ==
    {<<>>,
     MEDIA_TYPE_2,
     <<109, 101, 100, 105, 97, 84, 121, 112, 101, 61, 49>>,         \* mediaType=1
     <<109, 101, 100, 105, 97, 84, 121, 112, 101, 61, 50, 49>>,     \* mediaType=21
     <<99, 108, 111, 115, 101, 61, 49>>,                            \* close=1
     <<100, 105, 115, 99, 108, 111, 115, 101, 61, 49>>,             \* disclose=1
     <<109, 101, 100, 105, 97, 84, 121, 112, 101, 61, 49, 38,
       99, 108, 111, 115, 101, 61>>}                                \* mediaType=1&close=

FramePayloads == {<<>>, <<1, 2, 3>>, <<0>>}

be32(n) == <<n \div 16777216, (n \div 65536) % 256, (n \div 256) % 256, n % 256>>

FrameMessages ==
    {<<>>, <<0>>, <<0, 0, 0>>}
    \cup UNION {UNION {{be32(n) \o h \o p : n \in 0..(Len(h) + Len(p) + MaxOverrun)}
                        \cup {<<Len(h), 0, 0, 0>> \o h \o p}
                        : p \in FramePayloads} : h \in FrameHeaders}

InitFramerIdle ==
    /\ message = <<>>
    /\ payload = NotYet

InitFramer ==
    /\ message \in FrameMessages
    /\ payload = NotYet

Decode ==
    /\ payload = NotYet
    /\ payload' = extract_payload(message)
    /\ UNCHANGED message

NextFramer == Decode /\ UNCHANGED <<apiVars, bridgeVars, serviceVars>>

(* ------------------------------------------------------------------ *)
(* WebSocketBridge (ws_bridge.py 43-171): one instance, its owner, its *)
(* pump tasks, their worker threads, the FIFO and the player reading it *)
(* ------------------------------------------------------------------ *)
NoTask == 0

NoPath == 0

NoFd == 0

BridgeIds == 1..MaxStarts

IdleTask ==
    [pc |-> "none", must_cancel |-> FALSE, fd |-> NoFd, ws |-> "none",
     recvd |-> <<>>, how |-> "none"]

\* path is the FIFO the thread opens; it stays as the pipe the descriptor
\* of that task refers to
IdleThread == [op |-> "none", st |-> "none", path |-> NoPath, data |-> <<>>]

NewPipe == [reader |-> "none", buf |-> 0, sink |-> <<>>]

\* what the socket delivers: binary frames and a text message
WsBinary(b) == [isbytes |-> TRUE, data |-> b]

WsText == [isbytes |-> FALSE, data |-> <<>>]

BridgeMessages ==
    {WsBinary(be32(11) \o <<109, 101, 100, 105, 97, 84, 121, 112, 101, 61, 49>>
                \o <<1, 2, 3>>),                                 \* video
     WsBinary(be32(11) \o MEDIA_TYPE_2 \o <<9>>),                 \* audio
     WsBinary(be32(7) \o <<99, 108, 111, 115, 101, 61, 49>>),     \* close=1
     WsText}

InitBridge ==
    /\ tmp_dir = NoPath
    /\ fifo_path = NoPath
    /\ pump_task = NoTask
    /\ starts = 0
    /\ dirs = {}
    /\ fifos = {}
    /\ task = [t \in BridgeIds |-> IdleTask]
    /\ thread = [t \in BridgeIds |-> IdleThread]
    /\ wfds = {}
    /\ pipe = [p \in BridgeIds |-> NewPipe]
    /\ owner = [pc |-> "idle", last |-> "none", at |-> "none"]

\* is_running, lines 58-60
is_running == pump_task # NoTask /\ task[pump_task].pc # "done"

\* start(), lines 62-70: no await, so the whole body is one step; mkdtemp
\* or mkfifo may raise OSError
Start ==
    /\ owner.pc = "idle"
    /\ starts < MaxStarts
    /\ starts' = starts + 1
    /\ \E outcome \in {"ok", "mkdtemp_fails", "mkfifo_fails"} :
        LET d == starts + 1 IN
        CASE outcome = "mkdtemp_fails" ->
                /\ owner' = [owner EXCEPT !.last = "start_failed"]
                /\ UNCHANGED <<tmp_dir, fifo_path, pump_task, dirs, fifos, task>>
          [] outcome = "mkfifo_fails" ->
                /\ tmp_dir' = d
                /\ fifo_path' = d
                /\ dirs' = dirs \cup {d}
                /\ owner' = [owner EXCEPT !.last = "start_failed"]
                /\ UNCHANGED <<pump_task, fifos, task>>
          [] outcome = "ok" ->
                /\ tmp_dir' = d
                /\ fifo_path' = d
                /\ dirs' = dirs \cup {d}
                /\ fifos' = fifos \cup {d}
                /\ task' = [task EXCEPT ![d] = [IdleTask EXCEPT !.pc = "created"]]
                /\ pump_task' = d
                /\ owner' = [owner EXCEPT !.last = "start"]
    /\ UNCHANGED <<thread, wfds, pipe>>

\* threads blocked in os.open(path, O_WRONLY) until the FIFO has a reader
BlockedOpeners(p) ==
    {t \in BridgeIds : thread[t].op = "open" /\ thread[t].st = "blocked"
                        /\ thread[t].path = p}

\* threads blocked in os.write on the full pipe p
BlockedWriters(p) ==
    {t \in BridgeIds : thread[t].op = "write" /\ thread[t].st = "blocked"
                        /\ thread[t].path = p}

\* lines 155-158: open the read end without blocking and close it at once;
\* every os.open blocked on that FIFO returns its descriptor
TransientReadOpen ==
    LET opened == IF pump_task # NoTask /\ fifo_path # NoPath /\ fifo_path \in fifos
                  THEN BlockedOpeners(fifo_path) ELSE {}
    IN  /\ thread' = [t \in BridgeIds |->
                        IF t \in opened THEN [thread[t] EXCEPT !.st = "done"]
                        ELSE thread[t]]
        /\ wfds' = wfds \cup opened

\* lines 161-171
StopRelease ==
    LET unlinked == fifo_path # NoPath /\ fifo_path \in fifos
        fifos1 == IF unlinked THEN fifos \ {fifo_path} ELSE fifos
        isdir == tmp_dir # NoPath /\ tmp_dir \in dirs
    IN  /\ pump_task' = NoTask
        /\ fifos' = fifos1
        /\ fifo_path' = IF unlinked THEN NoPath ELSE fifo_path
        /\ dirs' = IF isdir /\ tmp_dir \notin fifos1 THEN dirs \ {tmp_dir} ELSE dirs
        /\ tmp_dir' = IF isdir THEN NoPath ELSE tmp_dir

StopBeginNoCancel ==
    /\ owner.pc = "idle"
    /\ is_running
    /\ TransientReadOpen
    /\ owner' = [pc |-> "stopping", last |-> owner.last, at |-> task[pump_task].pc]
    /\ UNCHANGED <<tmp_dir, fifo_path, pump_task, starts, dirs, fifos, task, pipe>>

\* stop(), lines 150-160, with the pump task still pending: request the
\* cancellation, unblock the open, suspend on the task
StopBegin ==
    /\ owner.pc = "idle"
    /\ is_running
    /\ task' = [task EXCEPT ![pump_task].must_cancel = TRUE]
    /\ TransientReadOpen
    /\ owner' = [pc |-> "stopping", last |-> owner.last, at |-> task[pump_task].pc]
    /\ UNCHANGED <<tmp_dir, fifo_path, pump_task, starts, dirs, fifos, pipe>>

\* stop(), line 160 onwards, once the awaited task has ended
StopResume ==
    /\ owner.pc = "stopping"
    /\ task[pump_task].pc = "done"
    /\ StopRelease
    /\ owner' = [owner EXCEPT !.pc = "idle", !.last = "stop"]
    /\ UNCHANGED <<starts, task, thread, wfds, pipe>>

\* stop() with no pump task, or one that has ended: awaiting a finished task
\* does not suspend, so the whole body is one step
StopWhole ==
    /\ owner.pc = "idle"
    /\ ~is_running
    /\ TransientReadOpen
    /\ StopRelease
    /\ owner' = [pc |-> "idle", last |-> "stop",
                 at |-> IF pump_task = NoTask THEN "none" ELSE "done"]
    /\ UNCHANGED <<starts, task, pipe>>

\* the pump leaves the try statement: the socket context manager closes the
\* socket, the handler logs, finally (143-146) closes fd if it is not None
EndTask(t, how) ==
    /\ task' = [task EXCEPT ![t] =
                    [pc |-> "done", must_cancel |-> FALSE, fd |-> task[t].fd,
                     ws |-> CASE task[t].ws = "open" -> "closed"
                              [] task[t].ws = "connecting" -> "failed"
                              [] OTHER -> task[t].ws,
                     recvd |-> task[t].recvd, how |-> how]]
    /\ wfds' = wfds \ {task[t].fd}

PumpStartOpensFirst(t) ==
    /\ task[t].pc = "created"
    /\ IF task[t].must_cancel
       THEN /\ task' = [task EXCEPT ![t] = [IdleTask EXCEPT !.pc = "done",
                                                           !.how = "cancelled"]]
            /\ UNCHANGED thread
       ELSE /\ task' = [task EXCEPT ![t].pc = "connecting", ![t].ws = "connecting"]
            /\ thread' = [thread EXCEPT ![t] =
                            [op |-> "open", st |-> "queued", path |-> fifo_path,
                             data |-> <<>>]]
    /\ UNCHANGED <<tmp_dir, fifo_path, pump_task, starts, dirs, fifos,
                   wfds, pipe, owner>>

\* first step of the task made by create_task (69); a task cancelled before
\* it first runs never enters the coroutine
PumpStart(t) ==
    /\ task[t].pc = "created"
    /\ IF task[t].must_cancel
       THEN task' = [task EXCEPT ![t] = [IdleTask EXCEPT !.pc = "done",
                                                        !.how = "cancelled"]]
       ELSE task' = [task EXCEPT ![t].pc = "connecting", ![t].ws = "connecting"]
    /\ UNCHANGED <<tmp_dir, fifo_path, pump_task, starts, dirs, fifos, thread,
                   wfds, pipe, owner>>

\* CancelledError raised at the await the pump is suspended on (139-146)
PumpCancelled(t) ==
    /\ task[t].pc \in {"connecting", "opening", "receiving", "writing"}
    /\ task[t].must_cancel
    /\ EndTask(t, "cancel_logged")
    /\ UNCHANGED <<tmp_dir, fifo_path, pump_task, starts, dirs, fifos, thread,
                   pipe, owner>>

\* connect succeeded (125-131); line 133 hands os.open to a worker thread
ConnectOk(t) ==
    /\ task[t].pc = "connecting"
    /\ ~task[t].must_cancel
    /\ task' = [task EXCEPT ![t].pc = "opening", ![t].ws = "open"]
    /\ thread' = [thread EXCEPT ![t] =
                    [op |-> "open", st |-> "queued", path |-> fifo_path, data |-> <<>>]]
    /\ UNCHANGED <<tmp_dir, fifo_path, pump_task, starts, dirs, fifos, wfds,
                   pipe, owner>>

\* connect raised (refused, timeout, TLS, bad status): except Exception (141)
ConnectFail(t) ==
    /\ task[t].pc = "connecting"
    /\ ~task[t].must_cancel
    /\ EndTask(t, "exception_logged")
    /\ UNCHANGED <<tmp_dir, fifo_path, pump_task, starts, dirs, fifos, thread,
                   pipe, owner>>

\* the worker thread enters (or re-tries, after a wake-up) its system call
ThreadEnter(t) ==
    /\ thread[t].st = "queued"
    /\ LET p == thread[t].path IN
       IF thread[t].op = "open"
       THEN /\ IF p = NoPath \/ p \notin fifos
               THEN thread' = [thread EXCEPT ![t].st = "failed"] /\ UNCHANGED wfds
               ELSE IF pipe[p].reader = "open"
               THEN thread' = [thread EXCEPT ![t].st = "done"] /\ wfds' = wfds \cup {t}
               ELSE thread' = [thread EXCEPT ![t].st = "blocked"] /\ UNCHANGED wfds
            /\ UNCHANGED pipe
       ELSE /\ UNCHANGED wfds
            /\ IF t \notin wfds \/ pipe[p].reader # "open"
               THEN thread' = [thread EXCEPT ![t].st = "failed"] /\ UNCHANGED pipe
               ELSE IF pipe[p].buf < PipeCap
               THEN /\ thread' = [thread EXCEPT ![t].st = "done"]
                    /\ pipe' = [pipe EXCEPT ![p].buf = @ + 1,
                                            ![p].sink = @ \o thread[t].data]
               ELSE thread' = [thread EXCEPT ![t].st = "blocked"] /\ UNCHANGED pipe
    /\ UNCHANGED <<tmp_dir, fifo_path, pump_task, starts, dirs, fifos, task, owner>>

\* line 133 resumes with the descriptor
PumpOpenDone(t) ==
    /\ task[t].pc = "opening"
    /\ ~task[t].must_cancel
    /\ thread[t].st = "done"
    /\ task' = [task EXCEPT ![t].pc = "receiving", ![t].fd = t]
    /\ thread' = [thread EXCEPT ![t].op = "none", ![t].st = "none"]
    /\ UNCHANGED <<tmp_dir, fifo_path, pump_task, starts, dirs, fifos, wfds,
                   pipe, owner>>

\* line 133 resumes with the OSError of os.open
PumpOpenFailed(t) ==
    /\ task[t].pc = "opening"
    /\ ~task[t].must_cancel
    /\ thread[t].st = "failed"
    /\ EndTask(t, "exception_logged")
    /\ thread' = [thread EXCEPT ![t] = IdleThread]
    /\ UNCHANGED <<tmp_dir, fifo_path, pump_task, starts, dirs, fifos, pipe, owner>>

RECURSIVE SumRecvd(_)
SumRecvd(n) == IF n = 0 THEN 0 ELSE Len(task[n].recvd) + SumRecvd(n - 1)

\* messages the sockets of this bridge have delivered so far
Received == SumRecvd(MaxStarts)

RecvRaw(t) ==
    /\ task[t].pc = "receiving"
    /\ ~task[t].must_cancel
    /\ Received < MaxRecv
    /\ \E m \in BridgeMessages :
        IF m.isbytes
        THEN /\ task' = [task EXCEPT ![t].pc = "writing",
                                     ![t].recvd = Append(@, m)]
             /\ thread' = [thread EXCEPT ![t] =
                            [op |-> "write", st |-> "queued",
                             path |-> thread[t].path, data |-> m.data]]
        ELSE /\ task' = [task EXCEPT ![t].recvd = Append(@, m)]
             /\ UNCHANGED thread
    /\ UNCHANGED <<tmp_dir, fifo_path, pump_task, starts, dirs, fifos, wfds,
                   pipe, owner>>

\* lines 134-138: the next message; a truthy payload goes to os.write in a
\* worker thread, anything else is skipped
Recv(t) ==
    /\ task[t].pc = "receiving"
    /\ ~task[t].must_cancel
    /\ Received < MaxRecv
    /\ \E m \in BridgeMessages :
        LET p == IF m.isbytes THEN extract_payload(m.data) ELSE NoneValue IN
        IF Truthy(p)
        THEN /\ task' = [task EXCEPT ![t].pc = "writing",
                                     ![t].recvd = Append(@, m)]
             /\ thread' = [thread EXCEPT ![t] =
                            [op |-> "write", st |-> "queued",
                             path |-> thread[t].path, data |-> p.bytes]]
        ELSE /\ task' = [task EXCEPT ![t].recvd = Append(@, m)]
             /\ UNCHANGED thread
    /\ UNCHANGED <<tmp_dir, fifo_path, pump_task, starts, dirs, fifos, wfds,
                   pipe, owner>>

\* the connection closes: the iteration ends (normal closure) or raises
\* ConnectionClosedError (141)
RecvClosed(t) ==
    /\ task[t].pc = "receiving"
    /\ ~task[t].must_cancel
    /\ \E how \in {"returned", "exception_logged"} : EndTask(t, how)
    /\ UNCHANGED <<tmp_dir, fifo_path, pump_task, starts, dirs, fifos, thread,
                   pipe, owner>>

\* line 138 resumes: the payload is written
PumpWriteDone(t) ==
    /\ task[t].pc = "writing"
    /\ ~task[t].must_cancel
    /\ thread[t].st = "done"
    /\ task' = [task EXCEPT ![t].pc = "receiving"]
    /\ thread' = [thread EXCEPT ![t].op = "none", ![t].st = "none", ![t].data = <<>>]
    /\ UNCHANGED <<tmp_dir, fifo_path, pump_task, starts, dirs, fifos, wfds,
                   pipe, owner>>

\* line 138 resumes with BrokenPipeError (139)
PumpWriteFailed(t) ==
    /\ task[t].pc = "writing"
    /\ ~task[t].must_cancel
    /\ thread[t].st = "failed"
    /\ EndTask(t, "broken_pipe_logged")
    /\ thread' = [thread EXCEPT ![t].op = "none", ![t].st = "none", ![t].data = <<>>]
    /\ UNCHANGED <<tmp_dir, fifo_path, pump_task, starts, dirs, fifos, pipe, owner>>

\* the player opens the read end of the FIFO it was given
PlayerOpen(p) ==
    /\ p \in fifos
    /\ pipe[p].reader = "none"
    /\ pipe' = [pipe EXCEPT ![p].reader = "open"]
    /\ thread' = [t \in BridgeIds |->
                    IF t \in BlockedOpeners(p) THEN [thread[t] EXCEPT !.st = "done"]
                    ELSE thread[t]]
    /\ wfds' = wfds \cup BlockedOpeners(p)
    /\ UNCHANGED <<tmp_dir, fifo_path, pump_task, starts, dirs, fifos, task, owner>>

\* the player drains the pipe: blocked writers re-try
PlayerRead(p) ==
    /\ pipe[p].reader = "open"
    /\ pipe[p].buf > 0
    /\ pipe' = [pipe EXCEPT ![p].buf = 0]
    /\ thread' = [t \in BridgeIds |->
                    IF t \in BlockedWriters(p) THEN [thread[t] EXCEPT !.st = "queued"]
                    ELSE thread[t]]
    /\ UNCHANGED <<tmp_dir, fifo_path, pump_task, starts, dirs, fifos, task,
                   wfds, owner>>

\* the player closes its read end: blocked writers wake up with EPIPE
PlayerClose(p) ==
    /\ pipe[p].reader = "open"
    /\ pipe' = [pipe EXCEPT ![p].reader = "closed"]
    /\ thread' = [t \in BridgeIds |->
                    IF t \in BlockedWriters(p) THEN [thread[t] EXCEPT !.st = "queued"]
                    ELSE thread[t]]
    /\ UNCHANGED <<tmp_dir, fifo_path, pump_task, starts, dirs, fifos, task,
                   wfds, owner>>

BridgeStep ==
    \/ Start
    \/ StopBegin
    \/ StopResume
    \/ StopWhole
    \/ \E t \in BridgeIds :
        \/ PumpStart(t)
        \/ PumpCancelled(t)
        \/ ConnectOk(t)
        \/ ConnectFail(t)
        \/ ThreadEnter(t)
        \/ PumpOpenDone(t)
        \/ PumpOpenFailed(t)
        \/ Recv(t)
        \/ RecvClosed(t)
        \/ PumpWriteDone(t)
        \/ PumpWriteFailed(t)
    \/ \E p \in BridgeIds :
        \/ PlayerOpen(p)
        \/ PlayerRead(p)
        \/ PlayerClose(p)

NextBridge == BridgeStep /\ UNCHANGED <<apiVars, framerVars, serviceVars>>

InitOwner == InitApi /\ InitFramerIdle /\ InitBridge /\ InitServicesIdle

SpecBridge == InitOwner /\ [][NextBridge]_vars

\* the asyncio loop runs every callback that is ready: a pump task with a
\* pending cancellation is resumed, and so is stop() once its task has ended
LoopFairness ==
    /\ \A t \in BridgeIds :
        /\ WF_vars(PumpStart(t) /\ UNCHANGED <<apiVars, framerVars, serviceVars>>)
        /\ WF_vars(PumpCancelled(t) /\ UNCHANGED <<apiVars, framerVars, serviceVars>>)
    /\ WF_vars(StopResume /\ UNCHANGED <<apiVars, framerVars, serviceVars>>)

SpecBridgeFair == SpecBridge /\ LoopFairness

InitDecode == InitApi /\ InitFramer /\ InitBridge /\ InitServicesIdle

SpecFramer == InitDecode /\ [][NextFramer]_vars

InitLiveCall == InitApi /\ InitFramerIdle /\ InitBridge /\ InitLive /\ config = AppConfig

NextLive == GetLiveViewPath /\ UNCHANGED <<apiVars, framerVars, bridgeVars>>

SpecLive == InitLiveCall /\ [][NextLive]_vars

NextConfig == (AddProfile \/ RemoveProfile) /\ UNCHANGED <<apiVars, framerVars, bridgeVars>>

(* ------------------------------------------------------------------ *)
(* Specification: one caller issuing operations one after the other    *)
(* ------------------------------------------------------------------ *)
TaskStep(t) ==
    \/ \E api \in CallerApis, v \in Versions, x \in ExtraParams :
            RequestStart(t, api, "List", v, x)
    \/ \E resp \in Responses : RequestFirstResponse(t, resp)
    \/ \E resp \in Responses : RequestReloginResponse(t, resp)
    \/ \E resp \in Responses : RequestRetryResponse(t, resp)
    \/ \E u \in Usernames, p \in Passwords : LoginStart(t, u, p)
    \/ \E resp \in Responses : LoginResponse(t, resp)
    \/ LogoutStart(t)
    \/ \E resp \in Responses : LogoutResponse(t, resp)
    \/ \E api \in CallerApis, v \in Versions, x \in ExtraParams :
            DownloadStart(t, api, "GetSnapshot", v, x)
    \/ \E resp \in DownloadResponses : DownloadResponse(t, resp)
    \/ \E x \in StreamExtras : GetStreamUrl(t, "entry.cgi", x)
    \/ DiscoverStart(t)
    \/ \E resp \in DiscoveryResponses : DiscoverResponse(t, resp)

NextApi == \E t \in MainTasks : TaskStep(t)

Next == NextApi /\ UNCHANGED <<framerVars, bridgeVars, serviceVars>>

Init == InitApi /\ InitFramerIdle /\ InitBridge /\ InitServicesIdle

Spec == Init /\ [][Next]_vars

SpecConfig == Init /\ [][NextConfig]_vars

(* ------------------------------------------------------------------ *)
(* Specification: callers running concurrently on one session          *)
(* ------------------------------------------------------------------ *)
\* answers to concurrent callers: a success envelope carrying a sid, or an
\* error envelope with a session-error code
ConcurrentResponses ==
    {r \in Responses :
        /\ r.net = "ok" /\ r.parses
        /\ \/ DictGet(DictGet(r.json, "data", EmptyDict), "sid", "") # ""
           \/ DictGet(DictGet(r.json, "error", EmptyDict), "code", 0) = 105}

ConcurrentLogins == {<<"admin", "pw">>}

\* the awaited client.get of task t ends (the client has a timeout, line 90)
ResponseArrives(t) ==
    \E resp \in ConcurrentResponses :
        \/ RequestFirstResponse(t, resp)
        \/ RequestReloginResponse(t, resp)
        \/ RequestRetryResponse(t, resp)
        \/ LoginResponse(t, resp)
        \/ LogoutResponse(t, resp)

\* the callers that issue request() and those that log in and out
Requesters == {"t1", "t2"}

Authenticators == {"t2"}

ConcurrentStep(t) ==
    \/ /\ t \in Requesters
       /\ RequestStart(t, "SYNO.SurveillanceStation.Camera", "List", 1, EmptyDict)
    \/ /\ t \in Authenticators
       /\ \/ \E c \in ConcurrentLogins : LoginStart(t, c[1], c[2])
          \/ LogoutStart(t)
    \/ ResponseArrives(t)

NextConcurrent ==
    (\E t \in Tasks : ConcurrentStep(t))
    /\ UNCHANGED <<framerVars, bridgeVars, serviceVars>>

SpecConcurrent ==
    /\ Init
    /\ [][NextConcurrent]_vars
    /\ \A t \in Tasks :
        WF_vars(ResponseArrives(t) /\ UNCHANGED <<framerVars, bridgeVars, serviceVars>>)

(* ================================================================== *)
(* Properties                                                          *)
(* ================================================================== *)
\* the vendor's answer read straight from the wire
VendorRejects(resp) ==
    resp.net = "ok" /\ resp.parses /\ ~DictGet(resp.json, "success", FALSE)

VendorCode(resp) == DictGet(DictGet(resp.json, "error", EmptyDict), "code", 100)

VendorAccepts(resp) ==
    resp.net = "ok" /\ resp.parses /\ DictGet(resp.json, "success", FALSE)

VendorSid(resp) == DictGet(DictGet(resp.json, "data", EmptyDict), "sid", "")

WithoutSid(d) == [k \in (DOMAIN d) \ {"_sid"} |-> d[k]]

SameCall(r1, r2) == r1.path = r2.path /\ WithoutSid(r1.params) = WithoutSid(r2.params)

CredsStored(e) == e.user # "" /\ e.pw # ""

\* trace of a request(): 1 call, 2 GET, 3 RESP, 4 login, 5 GET (Login),
\* 6 RESP, 7 login_return | login_raise, 8 GET (retry), 9 RESP
FirstFailedWithSessionError(tr) ==
    /\ Len(tr) >= 3
    /\ tr[3].ev = "RESP"
    /\ VendorRejects(tr[3].resp)
    /\ VendorCode(tr[3].resp) \in {105, 106, 107, 119}

ReloginFailed(t) ==
    /\ call[t].op = "request"
    /\ pc[t] = "idle"
    /\ FirstFailedWithSessionError(trace[t])
    /\ CredsStored(trace[t][3])
    /\ Len(trace[t]) >= 7
    /\ trace[t][7].ev = "login_raise"

\* C1: a request() whose first raw_request fails with a session error
\* (105, 106, 107, 119) while username and password are stored makes exactly
\* one login with the stored credentials, sends nothing else until that login
\* has ended, and after a successful login sends exactly one retry of the
\* same call: the events are raw_request, login, raw_request.
C1_ReloginThenRetryOnce ==
    \A t \in Tasks :
        (call[t].op = "request" /\ FirstFailedWithSessionError(trace[t])
            /\ CredsStored(trace[t][3])) =>
        LET tr == trace[t] IN
        /\ Len(tr) >= 5
        /\ tr[4].ev = "login" /\ tr[4].user = tr[3].user /\ tr[4].pw = tr[3].pw
        /\ tr[5].ev = "GET"
        /\ tr[5].req.params["method"] = "Login"
        /\ tr[5].req.params["account"] = tr[3].user
        /\ tr[5].req.params["passwd"] = tr[3].pw
        /\ Len(LoginCalls(tr)) = 1
        /\ (Len(tr) = 5 <=> pc[t] = "request_relogin")
        /\ (Len(tr) >= 6 => /\ tr[6].ev = "RESP"
                            /\ Len(tr) >= 7
                            /\ tr[7].ev \in {"login_return", "login_raise"})
        /\ (Len(tr) >= 7 /\ tr[7].ev = "login_return" =>
                /\ Len(tr) >= 8
                /\ tr[8].ev = "GET"
                /\ SameCall(tr[8].req, tr[2].req)
                /\ Len(Gets(tr)) = 3
                /\ (Len(tr) = 8 <=> pc[t] = "request_retry")
                /\ Len(tr) <= 9
                /\ (Len(tr) = 9 => tr[9].ev = "RESP" /\ pc[t] = "idle"))

C1_Witness ==
    \E t \in Tasks :
        /\ call[t].op = "request" /\ pc[t] = "idle"
        /\ FirstFailedWithSessionError(trace[t])
        /\ CredsStored(trace[t][3])
        /\ Len(trace[t]) = 9
        /\ trace[t][7].ev = "login_return"
        /\ result[t].kind = "ok"

\* C2: when the re-login of a request() fails for any reason, request() fails
\* with SessionExpiredError whose cause is the original session-error
\* ApiError, and no retry is sent.
C2_ReloginFailureIsSessionExpired ==
    \A t \in Tasks :
        ReloginFailed(t) =>
            /\ result[t].kind = "SessionExpiredError"
            /\ result[t].cause = [kind |-> "ApiError", code |-> VendorCode(trace[t][3].resp)]
            /\ Len(Gets(trace[t])) = 2

\* C3: request() logs in again only after a first raw_request that failed
\* with a session error while username and password are both stored; any
\* other ApiError of the first raw_request reaches the caller unchanged after
\* one raw_request, no login, and with sid, username, password untouched.
C3_OtherErrorsPropagate ==
    \A t \in Tasks :
        call[t].op = "request" =>
        LET tr == trace[t] IN
        /\ (LoginCalls(tr) # <<>> =>
                FirstFailedWithSessionError(tr) /\ CredsStored(tr[3]))
        /\ (/\ Len(tr) >= 3
            /\ VendorRejects(tr[3].resp)
            /\ ~(VendorCode(tr[3].resp) \in {105, 106, 107, 119} /\ CredsStored(tr[3]))
            => /\ pc[t] = "idle"
               /\ Len(tr) = 3
               /\ Len(Gets(tr)) = 1
               /\ LoginCalls(tr) = <<>>
               /\ result[t].kind = "ApiError"
               /\ result[t].code = VendorCode(tr[3].resp)
               /\ result[t].cause = NoCause
               /\ sid = tr[1].sid /\ username = tr[1].user /\ password = tr[1].pw)

C3_Witness ==
    \E t \in Tasks :
        /\ call[t].op = "request" /\ pc[t] = "idle"
        /\ Len(trace[t]) = 3
        /\ VendorRejects(trace[t][3].resp)
        /\ VendorCode(trace[t][3].resp) = 119
        /\ trace[t][3].user = "admin" /\ trace[t][3].pw = ""
        /\ result[t].kind = "ApiError" /\ result[t].code = 119

\* C4: one request() makes at most one login and at most two raw_requests of
\* the caller's call; when the retry fails with a session error that ApiError
\* is the result and nothing more is sent.
C4_AtMostOneRetry ==
    \A t \in Tasks :
        call[t].op = "request" =>
        LET tr == trace[t] IN
        /\ Len(LoginCalls(tr)) <= 1
        /\ Len(SelectSeq(tr, LAMBDA e : e.ev = "GET"
                                 /\ e.req.params["method"] = call[t].method)) <= 2
        /\ Len(Gets(tr)) <= 3
        /\ (Len(tr) >= 9 /\ VendorRejects(tr[9].resp) =>
                /\ pc[t] = "idle"
                /\ Len(tr) = 9
                /\ result[t].kind = "ApiError"
                /\ result[t].code = VendorCode(tr[9].resp))

C4_Witness ==
    \E t \in Tasks :
        /\ call[t].op = "request" /\ pc[t] = "idle"
        /\ Len(trace[t]) = 9
        /\ VendorRejects(trace[t][9].resp)
        /\ VendorCode(trace[t][9].resp) = 107
        /\ CredsStored(trace[t][9])
        /\ result[t].code = 107

SidParams == {"_sid=" \o s : s \in Sids \cup {""}}

\* every request and stream URL built so far carries _sid exactly when the
\* sid was non-empty as it was built, and then that sid
SidAttachedWhenSet ==
    \A t \in Tasks :
        LET tr == trace[t] IN
        /\ call[t].op \in {"request", "login", "logout", "download"} =>
            \A i \in 1..Len(tr) :
                tr[i].ev = "GET" =>
                    /\ ("_sid" \in DOMAIN tr[i].req.params) <=> (tr[i].sid # "")
                    /\ ("_sid" \in DOMAIN tr[i].req.params) =>
                            tr[i].req.params["_sid"] = tr[i].sid
        /\ call[t].op = "get_stream_url" =>
            LET u == result[t].data.params IN
            /\ (\E i \in 1..Len(u) : u[i] \in SidParams) <=> (tr[1].sid # "")
            /\ tr[1].sid # "" =>
                    /\ u[1] = "_sid=" \o tr[1].sid
                    /\ \A i \in 2..Len(u) : u[i] \notin SidParams

\* the sid changes only when a login returns (to the sid of the answer) or
\* when a logout ends (to "")
SidSetByLoginOrLogout ==
    sid' # sid =>
        \E t \in Tasks :
            LET n == Len(trace[t]) IN
            \/ /\ pc[t] \in {"login_wait", "request_relogin"}
               /\ Len(trace'[t]) >= n + 2
               /\ trace'[t][n + 1].ev = "RESP"
               /\ VendorAccepts(trace'[t][n + 1].resp)
               /\ sid' = VendorSid(trace'[t][n + 1].resp)
               /\ trace'[t][n + 2].ev = "login_return"
            \/ /\ pc[t] = "logout_wait"
               /\ pc'[t] = "idle"
               /\ sid' = ""

\* C5: a request built by raw_request or download, and a URL built by
\* get_stream_url, carries _sid iff the session identifier is non-empty when
\* it is built, with that value; the identifier is empty before any login and
\* from then on is the sid of the last login, or empty after a logout.
C5_SidAttachedIffSession ==
    /\ sid = ""
    /\ []SidAttachedWhenSet
    /\ [][SidSetByLoginOrLogout]_vars

C5_Witness ==
    \E t \in Tasks :
        /\ call[t].op = "request" /\ pc[t] = "idle"
        /\ Len(trace[t]) = 9
        /\ "_sid" \in DOMAIN trace[t][2].req.params
        /\ trace[t][2].req.params["_sid"] = "S1"
        /\ trace[t][8].req.params["_sid"] = "S2"
        /\ sid = "S2"

\* C6: logout() never raises and leaves the session identifier empty; without
\* a session it sends nothing, with one it sends exactly one Logout request
\* and clears the identifier whatever the answer; two logouts in a row send
\* at most one request.
C6_LogoutAlwaysClears ==
    \A t \in Tasks :
        (call[t].op = "logout" /\ pc[t] = "idle") =>
        LET tr == trace[t] IN
        /\ result[t].kind = "ok"
        /\ sid = ""
        /\ tr[1].sid = "" => Len(tr) = 1
        /\ tr[1].sid # "" =>
                /\ Len(tr) = 3
                /\ Len(Gets(tr)) = 1
                /\ tr[2].req.params["method"] = "Logout"
        /\ prev[t].op = "logout" => prev[t].gets + Len(Gets(tr)) <= 1

C6_Witness ==
    \E t \in Tasks :
        /\ call[t].op = "logout" /\ pc[t] = "idle"
        /\ Len(trace[t]) = 3
        /\ trace[t][1].sid = "S1"
        /\ trace[t][3].resp.net = "transport"
        /\ sid = ""

\* C7: login(username, password) answered by a success envelope with a
\* non-empty sid stores that sid, caches username and password and returns
\* the sid; answered by a success envelope without (or with an empty) sid it
\* fails with AuthError.
C7_LoginStoresSid ==
    \A t \in Tasks :
        (call[t].op = "login" /\ pc[t] = "idle" /\ VendorAccepts(trace[t][4].resp)) =>
        LET s == VendorSid(trace[t][4].resp) IN
        /\ s # "" => /\ result[t].kind = "ok"
                     /\ result[t].data = s
                     /\ sid = s
                     /\ username = call[t].user
                     /\ password = call[t].pw
        /\ s = "" => result[t].kind = "AuthError"

C7_Witness ==
    \E t \in Tasks :
        /\ call[t].op = "login" /\ pc[t] = "idle"
        /\ VendorAccepts(trace[t][4].resp)
        /\ VendorSid(trace[t][4].resp) = "S2"
        /\ trace[t][1].sid = "S1"
        /\ sid = "S2" /\ username = "admin" /\ password = "pw"

\* C8: after a request() whose re-login failed the session identifier is
\* empty.
C8_UnrecoverableClearsSid ==
    \A t \in Tasks : ReloginFailed(t) => sid = ""

\* C9: a login answered with the OTP-required code fails with
\* OtpRequiredError carrying that code and leaves the session unauthenticated.
C9_OtpRequiredError ==
    \A t \in Tasks :
        (/\ call[t].op = "login" /\ pc[t] = "idle"
         /\ VendorRejects(trace[t][4].resp)
         /\ VendorCode(trace[t][4].resp) \in OtpRequiredCodes) =>
            /\ result[t].kind = "OtpRequiredError"
            /\ result[t].code = VendorCode(trace[t][4].resp)
            /\ sid = trace[t][1].sid

\* C10: a transport or HTTP-status failure of a raw_request is never an
\* ApiError; request() does not log in again because of it: the failure
\* reaches the caller after one request, session fields untouched.
C10_TransportFailureIsNotApiError ==
    \A t \in Tasks :
        (call[t].op = "request" /\ Len(trace[t]) >= 3
            /\ trace[t][3].resp.net \in {"transport", "status"}) =>
        LET tr == trace[t] IN
        /\ pc[t] = "idle"
        /\ result[t].kind \in {"TransportError", "HTTPStatusError"}
        /\ ~IsInstance(result[t].kind, "ApiError")
        /\ Len(tr) = 3
        /\ Len(Gets(tr)) = 1
        /\ LoginCalls(tr) = <<>>
        /\ sid = tr[1].sid /\ username = tr[1].user /\ password = tr[1].pw

C10_Witness ==
    \E t \in Tasks :
        /\ call[t].op = "request" /\ pc[t] = "idle"
        /\ Len(trace[t]) = 3
        /\ trace[t][3].resp.net = "transport"
        /\ CredsStored(trace[t][3])
        /\ trace[t][3].sid = "S1"
        /\ result[t].kind = "TransportError"

\* C11: with endpoint info known the version sent is max_version when the
\* requested one is larger, the requested one when it is not larger, and
\* max_version when none (0) is requested; without endpoint info it is the
\* requested version, or 1 when none is requested. A version sent for a
\* discovered API never exceeds its max_version.
C11_VersionClamped ==
    \A t \in Tasks :
        \A i \in 1..Len(trace[t]) :
            (trace[t][i].ev = "GET" /\ call[t].op \in {"request", "download", "login", "logout"}) =>
            LET api == trace[t][i].req.params["api"]
                requested == IF api = "SYNO.API.Auth" THEN 6 ELSE call[t].version
                sent == trace[t][i].req.params["version"]
            IN  IF api \in DOMAIN api_info
                THEN LET max == api_info[api].max_version IN
                     /\ requested > max => sent = max
                     /\ (requested # 0 /\ requested <= max) => sent = requested
                     /\ requested = 0 => sent = max
                     /\ sent <= max
                ELSE /\ requested # 0 => sent = requested
                     /\ requested = 0 => sent = 1

C11_Witness ==
    \E t \in Tasks :
        /\ call[t].op = "request" /\ call[t].version = 2
        /\ "SYNO.SurveillanceStation.Camera" \in DOMAIN api_info
        /\ api_info["SYNO.SurveillanceStation.Camera"].max_version = 1
        /\ trace[t][2].req.params["version"] = 1

\* the answer that ends a request(): the first one, or the one to the retry
LastRawResponse(t) == trace[t][Len(trace[t])].resp

\* C12: raw_request returns the data field of a success envelope; for an
\* envelope without success it fails with ApiError carrying the vendor's code
\* and the message of the fixed table, or "Unknown error (N)" for a code N
\* that is not in the table.
C12_EnvelopeToOutcome ==
    \A t \in Tasks :
        (call[t].op = "request" /\ pc[t] = "idle" /\ Len(trace[t]) \in {3, 9}) =>
        LET r == LastRawResponse(t) IN
        /\ VendorAccepts(r) =>
                /\ result[t].kind = "ok"
                /\ result[t].data = DictGet(r.json, "data", EmptyDict)
        /\ (VendorRejects(r) /\ result[t].kind # "pending") =>
                /\ result[t].kind = "ApiError"
                /\ result[t].code = VendorCode(r)
                /\ result[t].code = 100 => result[t].message = "Unknown error"
                /\ result[t].code = 102 => result[t].message = "API does not exist"
                /\ result[t].code = 105 => result[t].message = "Insufficient user privilege"
                /\ result[t].code = 106 => result[t].message = "Connection time out"
                /\ result[t].code = 107 => result[t].message = "Multiple login detected"
                /\ result[t].code = 119 => result[t].message = "SID not found"
                /\ result[t].code = 403 => result[t].message = "Unknown error (403)"

C12_Witness ==
    \E t \in Tasks :
        /\ call[t].op = "request" /\ pc[t] = "idle" /\ Len(trace[t]) = 3
        /\ VendorRejects(trace[t][3].resp)
        /\ VendorCode(trace[t][3].resp) = 403
        /\ result[t].kind = "ApiError"
        /\ result[t].message = "Unknown error (403)"

C14_DiscoveryReplacesTable ==
    \A t \in Tasks :
        (call[t].op = "discover_apis" /\ pc[t] = "idle"
            /\ VendorAccepts(trace[t][3].resp)) =>
        LET data == DictGet(trace[t][3].resp.json, "data", EmptyDict) IN
        /\ DOMAIN api_info = DOMAIN data
        /\ \A n \in DOMAIN data :
                api_info[n].max_version = DictGet(data[n], "maxVersion", 1)

(* ---------------- de-framer ---------------- *)
\* the fields of a frame read straight from the bytes
FrameWellFormed(msg) ==
    Len(msg) >= 4
    /\ 4 + (16777216 * msg[1] + 65536 * msg[2] + 256 * msg[3] + msg[4]) <= Len(msg)

FrameHeaderLen(msg) == 16777216 * msg[1] + 65536 * msg[2] + 256 * msg[3] + msg[4]

FrameHeader(msg) ==
    IF FrameHeaderLen(msg) = 0 THEN <<>> ELSE SubSeq(msg, 5, 4 + FrameHeaderLen(msg))

FrameBody(msg) ==
    IF 4 + FrameHeaderLen(msg) = Len(msg) THEN <<>>
    ELSE SubSeq(msg, 5 + FrameHeaderLen(msg), Len(msg))

IsSeparator(b) == b \in {0, 10, 13, 32, 38, 44, 59}

\* the header has a key=value token that is exactly mediaType=2
HasMediaType2Token(h) ==
    \E i \in 1..Len(h) :
        /\ i + 10 <= Len(h)
        /\ SubSeq(h, i, i + 10) = <<109, 101, 100, 105, 97, 84, 121, 112, 101, 61, 50>>
        /\ (i = 1 \/ IsSeparator(h[i - 1]))
        /\ (i + 10 = Len(h) \/ IsSeparator(h[i + 11]))

\* the header has a token whose key is close
HasCloseToken(h) ==
    \E i \in 1..Len(h) :
        /\ i + 5 <= Len(h)
        /\ SubSeq(h, i, i + 5) = <<99, 108, 111, 115, 101, 61>>
        /\ (i = 1 \/ IsSeparator(h[i - 1]))

\* C15: the de-framer returns None for every message shorter than 4 bytes,
\* whose header length field points past its end, whose header contains
\* mediaType=2 or close=, or whose payload is empty; it returns a value (None
\* or bytes taken from inside the message) for every byte string.
C15_DroppedFrames ==
    payload # NotYet =>
        /\ payload.kind \in {"None", "bytes"}
        /\ Len(message) < 4 => payload = NoneValue
        /\ (Len(message) >= 4 /\ ~FrameWellFormed(message)) => payload = NoneValue
        /\ FrameWellFormed(message) =>
            /\ HasMediaType2Token(FrameHeader(message)) => payload = NoneValue
            /\ HasCloseToken(FrameHeader(message)) => payload = NoneValue
            /\ FrameBody(message) = <<>> => payload = NoneValue
            /\ payload.kind = "bytes" =>
                    Len(payload.bytes) = Len(message) - FrameHeaderLen(message)

C15_Witness ==
    /\ payload = NoneValue
    /\ FrameWellFormed(message)
    /\ HasCloseToken(FrameHeader(message))
    /\ FrameBody(message) = <<1, 2, 3>>

\* C16: for a well-formed message whose header has neither the token
\* mediaType=2 nor a close= token and whose payload is not empty, the
\* de-framer returns 00 00 00 01 followed by the bytes after the header.
C16_PayloadForOtherHeaders ==
    (/\ payload # NotYet
     /\ FrameWellFormed(message)
     /\ ~HasMediaType2Token(FrameHeader(message))
     /\ ~HasCloseToken(FrameHeader(message))
     /\ FrameBody(message) # <<>>) =>
        /\ payload = Bytes(<<0, 0, 0, 1>> \o FrameBody(message))
        /\ Len(payload.bytes) = Len(message) - FrameHeaderLen(message)

(* ---------------- stream bridge ---------------- *)
PumpTasksCreated == {t \in BridgeIds : task[t].pc # "none"}

\* the bridge has been stopped, or its pump has ended by itself
BridgeStopped ==
    \/ owner.last = "stop"
    \/ pump_task # NoTask /\ task[pump_task].pc = "done"

\* nothing of the bridge is left: no pending task, socket, descriptor,
\* worker-thread operation, FIFO or directory
Released ==
    /\ \A t \in BridgeIds :
        /\ task[t].pc \in {"none", "done"}
        /\ task[t].ws \in {"none", "closed", "failed"}
        /\ thread[t].st \notin {"queued", "blocked"}
    /\ wfds = {}
    /\ fifos = {}
    /\ dirs = {}

\* a step in which stop() returns
StopReturns == StopResume \/ StopWhole

\* C17: over any sequence of start() and stop() calls on one bridge at most
\* one pump task (and so one FIFO) is ever created, and a start() made after
\* the bridge has stopped does not make it run again.
C17_SingleUse ==
    /\ [](Cardinality(PumpTasksCreated) <= 1)
    /\ [][(BridgeStopped /\ Start) => ~is_running']_vars

\* C18: when stop() returns on a bridge that was started once, every socket
\* is closed, every write descriptor is closed, the FIFO and its directory are
\* removed, and no pump task or worker-thread operation is pending.
C18_StopReleasesEverything ==
    [][(StopReturns /\ starts = 1) => Released']_vars

\* C19: a stop() that has to wait for the pump task always returns, whatever
\* the pump was blocked on.
C19_StopTerminates ==
    (owner.pc = "stopping") ~> (owner.pc = "idle" /\ owner.last = "stop")

C19_Witness ==
    /\ owner.pc = "idle"
    /\ owner.last = "stop"
    /\ owner.at = "writing"
    /\ \E t \in BridgeIds : thread[t].op = "write" /\ thread[t].st = "blocked"

\* C20: whenever stop() returns (never started, start failed, pump never
\* connected, second stop) the bridge has no pump task, an empty FIFO path and
\* an empty temp-dir path.
C20_StopIdempotent ==
    [][StopReturns => (pump_task' = NoTask /\ fifo_path' = NoPath
                        /\ tmp_dir' = NoPath)]_vars

\* a binary message whose header carries the close= control signal
IsCloseSignal(m) ==
    m.isbytes /\ FrameWellFormed(m.data) /\ HasCloseToken(FrameHeader(m.data))

\* C21: a close= message is the last message a pump takes from its socket,
\* and once it has been received the pump loop has ended.
C21_CloseSignalEndsLoop ==
    \A t \in BridgeIds :
        \A i \in 1..Len(task[t].recvd) :
            IsCloseSignal(task[t].recvd[i]) =>
                (i = Len(task[t].recvd) /\ task[t].pc = "done")

\* C22: however a pump ended (connection failure, closure, broken pipe,
\* cancellation) it ended without raising, the bridge is not running, and the
\* write descriptor opened for it is closed.
C22_PumpErrorsContained ==
    \A t \in BridgeIds :
        task[t].pc = "done" =>
            /\ task[t].how \in {"returned", "exception_logged",
                                "broken_pipe_logged", "cancel_logged", "cancelled"}
            /\ (pump_task = t => ~is_running)
            /\ t \notin wfds

RECURSIVE PayloadsOf(_)
\* the bytes the de-framer yields for a sequence of socket messages
PayloadsOf(msgs) ==
    IF msgs = <<>> THEN <<>>
    ELSE LET m == Head(msgs)
             v == IF m.isbytes THEN extract_payload(m.data) ELSE NoneValue
         IN  (IF Truthy(v) THEN v.bytes ELSE <<>>) \o PayloadsOf(Tail(msgs))

SinkOf(t) == IF thread[t].path = NoPath THEN <<>> ELSE pipe[thread[t].path].sink

LastDropped(msgs) ==
    LET m == msgs[Len(msgs)] IN
    ~m.isbytes \/ ~Truthy(extract_payload(m.data))

\* the payload handed to os.write that has not reached the pipe: the write is
\* still under way, or it failed with a broken pipe and ended the pump
Unwritten(t) ==
    IF thread[t].op = "write" /\ thread[t].st # "done" THEN thread[t].data
    ELSE IF task[t].how = "broken_pipe_logged"
    THEN PayloadsOf(<<task[t].recvd[Len(task[t].recvd)]>>)
    ELSE <<>>

Established(t) == task[t].ws \in {"open", "closed"}

\* C26: start() returns the path of an existing FIFO with the pump task
\* created but not yet run; the write end is opened, a descriptor held, a
\* message taken or a byte written only by a pump whose socket connected.
C26_SinkBeforeSocket ==
    /\ [](\A t \in BridgeIds :
            (thread[t].op # "none" \/ t \in wfds \/ task[t].fd # NoFd
                \/ task[t].recvd # <<>>) => Established(t))
    /\ [](\A p \in BridgeIds :
            pipe[p].sink # <<>> =>
                \E t \in BridgeIds : Established(t) /\ thread[t].path = p)
    /\ [][(Start /\ owner'.last = "start") =>
            /\ fifo_path' \in fifos' /\ fifo_path' \notin fifos
            /\ pump_task' = fifo_path'
            /\ task'[pump_task'].pc = "created"
            /\ task'[pump_task'].ws = "none"
            /\ owner'.pc = "idle"]_vars

C26_Witness ==
    \E t \in BridgeIds :
        /\ task[t].ws = "failed"
        /\ task[t].how = "exception_logged"
        /\ t \in fifos
        /\ pipe[t].reader = "open"
        /\ pipe[t].sink = <<>>

(* ---------------- live view path, profiles ---------------- *)
FirstPathInfo(data) ==
    IF data.type = "list" THEN data.items[1] ELSE data.dict["pathInfos"][1]

HasFirstPathInfo(data) ==
    \/ data.type = "list" /\ data.items # <<>>
    \/ data.type = "dict" /\ "pathInfos" \in DOMAIN data.dict

\* C23: with the default protocol (auto) the GetLiveViewPath request is made
\* and the result is the rtspPath of the first entry when that is not empty,
\* otherwise the base URL followed by the entry's mjpegHttpPath, for a dict
\* with pathInfos and for a bare list alike.
C23_AutoPrefersRtsp ==
    (/\ live.out # NoLiveResult
     /\ live.protocol = "auto"
     /\ HasFirstPathInfo(live.data)
     /\ DOMAIN FirstPathInfo(live.data) = {"rtspPath", "mjpegHttpPath"}
     /\ FirstPathInfo(live.data)["mjpegHttpPath"] # "") =>
        /\ live.out.requested
        /\ live.out.kind = "return"
        /\ live.out.url =
            IF FirstPathInfo(live.data)["rtspPath"] # ""
            THEN FirstPathInfo(live.data)["rtspPath"]
            ELSE "https://nas:5001" \o FirstPathInfo(live.data)["mjpegHttpPath"]

\* C24: after any sequence of add_profile and remove_profile on an empty
\* AppConfig, default_profile is empty exactly when there is no profile and
\* otherwise names a profile of the table; add_profile sets the default when
\* there is none; removing the default profile moves it to a remaining one.
C24_DefaultProfileConsistent ==
    /\ [](/\ (config.default_profile = "") <=> (config.profiles = <<>>)
          /\ config.default_profile # "" =>
                \E i \in 1..Len(config.profiles) :
                    config.profiles[i].name = config.default_profile
          /\ \A i, j \in 1..Len(config.profiles) :
                config.profiles[i].name = config.profiles[j].name => i = j)
    /\ [][/\ (AddProfile /\ config.default_profile = "") =>
                (config'.default_profile # ""
                    /\ config'.profiles[1].name = config'.default_profile)
          /\ (AddProfile /\ config.default_profile # "") =>
                config'.default_profile = config.default_profile
          /\ (RemoveProfile /\ Len(config'.profiles) < Len(config.profiles)
                /\ \A i \in 1..Len(config'.profiles) :
                        config'.profiles[i].name # config.default_profile) =>
                (IF config'.profiles = <<>> THEN config'.default_profile = ""
                 ELSE \E i \in 1..Len(config'.profiles) :
                        config'.profiles[i].name = config'.default_profile)]_vars

C24_Witness ==
    /\ Len(config.profiles) = 2
    /\ config.profiles[1].name = "nas2"
    /\ config.profiles[2].name = "nas3"
    /\ config.default_profile = "nas2"

(* ---------------- session, continued ---------------- *)
\* the session fields are as they were when the operation of t was entered
SessionAsEntered(t) ==
    /\ sid = trace[t][1].sid
    /\ username = trace[t][1].user
    /\ password = trace[t][1].pw

\* C28: a request() made right after a completed logout() never enters
\* login() and leaves the session identifier empty.
C28_LogoutForgetsCredentials ==
    \A t \in Tasks :
        (call[t].op = "request" /\ prev[t].op = "logout") =>
            /\ LoginCalls(trace[t]) = <<>>
            /\ sid = ""

\* C29: download() sends one GET and never enters login(); the session
\* fields are untouched; a JSON error envelope with a session-error code
\* makes it fail with ApiError of that code, stored credentials or not.
C29_DownloadNeverRelogins ==
    \A t \in Tasks :
        call[t].op = "download" =>
            /\ Len(Gets(trace[t])) = 1
            /\ LoginCalls(trace[t]) = <<>>
            /\ SessionAsEntered(t)
            /\ (/\ pc[t] = "idle"
                /\ trace[t][3].resp.net = "ok"
                /\ trace[t][3].resp.ctype = "application/json"
                /\ VendorRejects(trace[t][3].resp)
                /\ VendorCode(trace[t][3].resp) \in {105, 106, 107, 119}) =>
                    /\ result[t].kind = "ApiError"
                    /\ result[t].code = VendorCode(trace[t][3].resp)

C29_Witness ==
    \E t \in Tasks :
        /\ call[t].op = "download" /\ pc[t] = "idle"
        /\ result[t].kind = "ApiError" /\ result[t].code = 119
        /\ sid = "S1" /\ username = "admin" /\ password = "pw"

\* C30: a login() that fails leaves sid, username and password as they were;
\* so does a request() whose silent re-login failed; a request() whose
\* re-login succeeded has changed sid only.
C30_FailedLoginChangesNothing ==
    \A t \in Tasks :
        /\ (call[t].op = "login" /\ pc[t] = "idle" /\ result[t].kind # "ok") =>
                SessionAsEntered(t)
        /\ (call[t].op = "request" /\ Len(trace[t]) >= 7
                /\ trace[t][7].ev = "login_raise") =>
                SessionAsEntered(t)
        /\ (call[t].op = "request" /\ Len(trace[t]) >= 7
                /\ trace[t][7].ev = "login_return") =>
                /\ username = trace[t][1].user
                /\ password = trace[t][1].pw
                /\ sid = VendorSid(trace[t][6].resp)

C30_Witness ==
    \E t \in Tasks :
        /\ call[t].op = "login" /\ pc[t] = "idle"
        /\ result[t].kind = "AuthError"
        /\ call[t].user = "" /\ call[t].pw = ""
        /\ sid = "S1" /\ username = "admin" /\ password = "pw"

\* the events task t appends to its trace in a step
NewEvents(t) ==
    IF trace'[t] = trace[t] THEN <<>>
    ELSE IF pc[t] = "idle" THEN trace'[t]
    ELSE SubSeq(trace'[t], Len(trace[t]) + 1, Len(trace'[t]))

\* a step of task t in which a login (its own, or the re-login of its
\* request) returns: the three attributes are assigned in that one step
LoginCompletes(t) ==
    LET new == NewEvents(t) IN
    /\ pc[t] \in {"login_wait", "request_relogin"}
    /\ Len(new) >= 2
    /\ new[1].ev = "RESP" /\ VendorAccepts(new[1].resp)
    /\ new[2].ev = "login_return"
    /\ sid' = VendorSid(new[1].resp) /\ sid' # ""
    /\ username' = call[t].user
    /\ password' = call[t].pw

LogoutCompletes(t) ==
    /\ pc[t] = "logout_wait" /\ pc'[t] = "idle"
    /\ sid' = ""
    /\ UNCHANGED <<username, password>>

\* the session changes only in a step where a login returns or a logout
\* ends, and a request built in a step carries the sid of that moment
SessionStep ==
    /\ <<sid, username, password>>' # <<sid, username, password>> =>
            \E t \in Tasks : LoginCompletes(t) \/ LogoutCompletes(t)
    /\ \A t \in Tasks :
            LET new == NewEvents(t) IN
            \A i \in 1..Len(new) :
                new[i].ev = "GET" =>
                    /\ DictGet(new[i].req.params, "_sid", "") \in {sid, sid'}
                    /\ DictGet(new[i].req.params, "_sid", "") = new[i].sid

OwnReloginAtMostOnce ==
    \A t \in Tasks :
        call[t].op = "request" =>
            /\ Len(LoginCalls(trace[t])) <= 1
            /\ Len(Gets(trace[t])) <= 3
            /\ pc[t] = "idle" => result[t] # NoResult

\* C27: however request(), login() and logout() of several callers
\* interleave, the session identifier changes only when a login returns (in
\* one step with username and password) or when a logout ends (to empty),
\* every _sid sent is the identifier of the moment the request was built
\* (so the initial one or one a login returned), and every request() ends
\* with a result or an error after at most one re-login of its own.
C27_ConcurrentSession ==
    /\ [][SessionStep]_vars
    /\ []OwnReloginAtMostOnce
    /\ \A t \in Tasks : (pc[t] # "idle") ~> (pc[t] = "idle")

\* two request() calls raced: each was refused, each re-logged in on its
\* own, and the first one's retry went out with the sid the second one's
\* re-login had replaced
C27_Witness ==
    /\ \A t \in Tasks :
            /\ call[t].op = "request" /\ pc[t] = "idle"
            /\ Len(LoginCalls(trace[t])) = 1
            /\ Len(Gets(trace[t])) = 3
    /\ \E t \in Tasks :
            /\ Gets(trace[t])[3].sid # sid
            /\ result[t].kind = "ApiError"

====
